---- MODULE Spec2Model ----
(***************************************************************************)
(* A model of functorch/_src/aot_autograd.py: the two partitioners of a    *)
(* joint forward/backward FX graph (default_partition and                  *)
(* partition_with_recompute_fwd_in_bwd), the subgraph extractor they use,  *)
(* and the compile cache / dispatch wrapper (compiled_function).           *)
(*                                                                         *)
(* A graph is a sequence of nodes in topological order; a node is named by *)
(* its position.  A node is a record                                       *)
(*   op     : "placeholder" | "call_function" | "output"                   *)
(*   target : for a placeholder "primals" or "tangents" (the marker the    *)
(*            code looks for in the target string), for a call the         *)
(*            operator                                                     *)
(*   args   : the positions of the argument nodes                          *)
(*   meta   : {} when the node has no 'tensor_meta', {n} when the product  *)
(*            of its shape is n                                            *)
(*   src    : in a graph built from another one, the position of the node  *)
(*            it copies (its name); the node's own position otherwise.     *)
(* The last node of a graph is its output node; its args are the outputs.  *)
(***************************************************************************)
EXTENDS Integers, Sequences, FiniteSets, TLC

\* ------------------------------------------------------------ bounds
MaxCalls == 2        \* call_function nodes of a joint graph
MaxPrimals == 2      \* primal placeholders of a joint graph
MaxGrads == 1        \* gradients among a joint graph's outputs
MaxInputs == 2       \* permitted inputs of an extraction
MaxOutputs == 2      \* desired outputs of an extraction
MaxSaved == 2        \* saved values handed to _extract_fwd_bwd_modules
MaxLeaves == 2       \* flattened arguments of a call of a wrapped callable
MaxDispatchCalls == 3 \* calls of a wrapped callable in one sequential behaviour
MaxConcurrentCalls == 2 \* calls of a wrapped callable in one concurrent behaviour
NumCallers == 2      \* callers that run concurrently

\* ------------------------------------------------------------ helpers
Range(s) == {s[i] : i \in DOMAIN s}

RECURSIVE SumOver(_, _)
SumOver(S, f) ==
    IF S = {} THEN 0
    ELSE LET x == CHOOSE y \in S : TRUE IN f[x] + SumOver(S \ {x}, f)

\* The orders in which a Python set of the given elements can be iterated.
Orderings(S) ==
    {s \in [1..Cardinality(S) -> S] : \A i, j \in 1..Cardinality(S) : s[i] = s[j] => i = j}

MapSeq(s, f) == [k \in DOMAIN s |-> f[s[k]]]

\* ------------------------------------------------------------ graph model
_is_primal(node) == node.op = "placeholder" /\ node.target # "tangents"

_is_tangent(node) == node.op = "placeholder" /\ node.target = "tangents"

\* node.users: the nodes that take node i as an argument (the output node too).
Users(g, i) == {u \in DOMAIN g : i \in Range(g[u].args)}

OutputNode(g) == g[Len(g)]

\* A graph under construction: its nodes, value_remap / env (0: no entry),
\* and whether a lookup in value_remap / env has failed.
EmptyAcc(g) == [nodes |-> <<>>, remap |-> [i \in DOMAIN g |-> 0], err |-> FALSE]

\* Graph.placeholder(node.name), recorded in the remap.
AddPlaceholder(acc, g, i) ==
    [nodes |-> Append(acc.nodes,
                 [op |-> "placeholder",
                  target |-> IF g[i].op = "placeholder" THEN g[i].target ELSE "saved",
                  args |-> <<>>, meta |-> {}, src |-> i]),
     remap |-> [acc.remap EXCEPT ![i] = Len(acc.nodes) + 1],
     err |-> acc.err]

RECURSIVE AddPlaceholders(_, _, _, _)
AddPlaceholders(acc, g, order, k) ==
    IF k > Len(order) THEN acc
    ELSE AddPlaceholders(AddPlaceholder(acc, g, order[k]), g, order, k + 1)

\* Graph.node_copy(node, lambda n: value_remap[n]): a KeyError when an argument
\* has no entry.
NodeCopy(acc, g, i) ==
    IF \E a \in Range(g[i].args) : acc.remap[a] = 0
    THEN [acc EXCEPT !.err = TRUE]
    ELSE [nodes |-> Append(acc.nodes,
                      [g[i] EXCEPT !.args = MapSeq(g[i].args, acc.remap), !.src = i]),
          remap |-> [acc.remap EXCEPT ![i] = Len(acc.nodes) + 1],
          err |-> acc.err]

\* node.target(*args, **kwargs) on proxies: the tracer appends a new node, which
\* carries no metadata.
ProxyCall(acc, g, i) ==
    LET r == NodeCopy(acc, g, i)
    IN [r EXCEPT !.nodes[Len(r.nodes)].meta = {}]

RECURSIVE CopyNodes(_, _, _, _)
CopyNodes(g, i, keep, acc) ==
    IF i > Len(g) \/ acc.err THEN acc
    ELSE CopyNodes(g, i + 1, keep, IF i \in keep THEN NodeCopy(acc, g, i) ELSE acc)

\* Graph.output(outs): the output node closes the graph.
WithOutput(acc, outs) ==
    Append(acc.nodes, [op |-> "output", target |-> "output",
                       args |-> outs, meta |-> {}, src |-> 0])

FailedPartition == [err |-> TRUE, fw |-> <<>>, bw |-> <<>>, fwSingle |-> FALSE,
                    bwSingle |-> FALSE, saved |-> <<>>]

\* ------------------------------------------------------------ evaluation
\* A value is the term <<operator, argument values>>; an input is a term with
\* no arguments.  Two graphs computing equal terms compute equal results
\* whatever the operators do.
RECURSIVE EvalNodes(_, _, _, _, _)
EvalNodes(g, i, inputs, k, vals) ==
    IF i > Len(g) THEN vals
    ELSE IF g[i].op = "placeholder"
         THEN EvalNodes(g, i + 1, inputs, k + 1, Append(vals, inputs[k]))
         ELSE EvalNodes(g, i + 1, inputs, k,
                        Append(vals, <<g[i].target, MapSeq(g[i].args, vals)>>))

NumPlaceholders(g) == Cardinality({i \in DOMAIN g : g[i].op = "placeholder"})

\* Calling a GraphModule: err when the number of arguments is not the number
\* of placeholders; a graph whose output was unwrapped returns the bare value.
RunGraph(g, single, inputs) ==
    IF NumPlaceholders(g) # Len(inputs)
    THEN [err |-> TRUE, kind |-> "list", v |-> <<>>]
    ELSE LET vals == EvalNodes(g, 1, inputs, 1, <<>>)
             outs == vals[Len(g)][2]
         IN IF single THEN [err |-> FALSE, kind |-> "tensor", v |-> outs[1]]
            ELSE [err |-> FALSE, kind |-> "list", v |-> outs]

normalize_as_list(x) == IF x.kind = "list" THEN x.v ELSE <<x.v>>

\* ------------------------------------------------------------ default_partition
RECURSIVE Color(_, _, _, _)
Color(g, i, bw_nodes, saved_nodes) ==
    IF i > Len(g) THEN [bw_nodes |-> bw_nodes, saved_nodes |-> saved_nodes]
    ELSE IF _is_tangent(g[i]) THEN Color(g, i + 1, bw_nodes \cup {i}, saved_nodes)
    ELSE IF g[i].op # "output"
         THEN IF \E a \in Range(g[i].args) : a \in bw_nodes \/ a \in saved_nodes
              THEN Color(g, i + 1, bw_nodes \cup {i},
                         saved_nodes \cup {a \in Range(g[i].args) : a \notin bw_nodes})
              ELSE Color(g, i + 1, bw_nodes, saved_nodes)
    ELSE Color(g, i + 1, bw_nodes, saved_nodes)

\* order: the order in which the set saved_nodes is iterated (the same on
\* lines 74 and 95, the set being unchanged in between).
default_partition(g, num_fwd_outputs, order) ==
    LET c == Color(g, 1, {}, {})
        outs == OutputNode(g).args
        fw_outputs == SubSeq(outs, 1, num_fwd_outputs)
        bw_outputs == SubSeq(outs, num_fwd_outputs + 1, Len(outs))
        bwAcc == CopyNodes(g, 1, c.bw_nodes \cup Range(bw_outputs),
                           AddPlaceholders(EmptyAcc(g), g, order, 1))
        fwAcc == CopyNodes(g, 1,
                           {i \in DOMAIN g : i \notin c.bw_nodes /\ g[i].op # "output"},
                           EmptyAcc(g))
        fwOuts == fw_outputs \o order
    IN IF bwAcc.err \/ fwAcc.err
          \/ (\E k \in DOMAIN bw_outputs : bwAcc.remap[bw_outputs[k]] = 0)
          \/ (\E k \in DOMAIN fwOuts : fwAcc.remap[fwOuts[k]] = 0)
       THEN FailedPartition
       ELSE [err |-> FALSE,
             fw |-> WithOutput(fwAcc, MapSeq(fwOuts, fwAcc.remap)),
             bw |-> WithOutput(bwAcc, MapSeq(bw_outputs, bwAcc.remap)),
             fwSingle |-> Len(fwOuts) = 1,
             bwSingle |-> Len(bw_outputs) = 1,
             saved |-> order]

\* ------------------------------------------------------------ extractor
\* Graph.eliminate_dead_code(): walking the nodes in reverse, a node with no
\* remaining user is erased unless it is impure; placeholders and the output
\* node are impure.
RECURSIVE DeadNodes(_, _, _)
DeadNodes(nodes, i, dead) ==
    IF i < 1 THEN dead
    ELSE IF nodes[i].op \notin {"placeholder", "output"}
            /\ ~ \E u \in DOMAIN nodes : u \notin dead /\ i \in Range(nodes[u].args)
         THEN DeadNodes(nodes, i - 1, dead \cup {i})
         ELSE DeadNodes(nodes, i - 1, dead)

\* The nodes left once the dead ones are erased, renumbered in order.
RECURSIVE Compact(_, _, _, _)
Compact(nodes, dead, i, acc) ==
    IF i > Len(nodes) THEN acc.nodes
    ELSE IF i \in dead THEN Compact(nodes, dead, i + 1, acc)
    ELSE Compact(nodes, dead, i + 1,
                 [nodes |-> Append(acc.nodes,
                              [nodes[i] EXCEPT !.args = MapSeq(nodes[i].args, acc.remap)]),
                  remap |-> [acc.remap EXCEPT ![i] = Len(acc.nodes) + 1]])

\* A graph left as the walk built it.
keep_dead_code(nodes) == nodes

eliminate_dead_code(nodes) ==
    Compact(nodes, DeadNodes(nodes, Len(nodes), {}), 1,
            [nodes |-> <<>>, remap |-> [i \in DOMAIN nodes |-> 0]])

\* The walk of lines 133-158; env[node] = 0 stands for InvalidNode.
RECURSIVE ExtractWalk(_, _, _, _)
ExtractWalk(g, i, inputs, acc) ==
    IF i > Len(g) THEN acc
    ELSE IF i \in Range(inputs) THEN ExtractWalk(g, i + 1, inputs, acc)
    ELSE IF g[i].op = "placeholder" THEN ExtractWalk(g, i + 1, inputs, acc)
    ELSE IF g[i].op = "call_function"
         THEN IF \E a \in Range(g[i].args) : acc.remap[a] = 0
              THEN ExtractWalk(g, i + 1, inputs, acc)
              ELSE ExtractWalk(g, i + 1, inputs, ProxyCall(acc, g, i))
    ELSE ExtractWalk(g, i + 1, inputs, acc)

\* err: an output's env entry is InvalidNode, which has no attribute 'node'.
_extract_graph_with_inputs_outputs(g, inputs, outputs) ==
    LET acc == ExtractWalk(g, 1, inputs, AddPlaceholders(EmptyAcc(g), g, inputs, 1))
    IN IF \E k \in DOMAIN outputs : acc.remap[outputs[k]] = 0
       THEN [err |-> TRUE, nodes |-> <<>>]
       ELSE [err |-> FALSE,
             nodes |-> eliminate_dead_code(WithOutput(acc, MapSeq(outputs, acc.remap)))]

RECURSIVE FilterSeq(_, _, _)
FilterSeq(s, keep, k) ==
    IF k > Len(s) THEN <<>>
    ELSE (IF s[k] \in keep THEN <<s[k]>> ELSE <<>>) \o FilterSeq(s, keep, k + 1)

\* The positions, in order, of the nodes of g that satisfy the test.
primal_inputs(g) == FilterSeq([i \in DOMAIN g |-> i], {i \in DOMAIN g : _is_primal(g[i])}, 1)

tangent_inputs(g) == FilterSeq([i \in DOMAIN g |-> i], {i \in DOMAIN g : _is_tangent(g[i])}, 1)

\* Lines 187-192: the saved values whose placeholder in the first backward
\* graph has no user are removed from the list.
\* A filter that finds no saved value unused.
NoneUnused(bwd, saved_values) == {}

UnusedSaved(bwd, saved_values) ==
    {bwd[i].src : i \in {j \in DOMAIN bwd : bwd[j].op = "placeholder" /\ Users(bwd, j) = {}}}
        \cap Range(saved_values)

_extract_fwd_bwd_modules(g, num_fwd_outputs, saved_values) ==
    LET outs == OutputNode(g).args
        fwd_outputs == SubSeq(outs, 1, num_fwd_outputs)
        bwd_outputs == SubSeq(outs, num_fwd_outputs + 1, Len(outs))
        fwd1 == _extract_graph_with_inputs_outputs(g, primal_inputs(g), fwd_outputs \o saved_values)
        bwd1 == _extract_graph_with_inputs_outputs(g, saved_values \o tangent_inputs(g), bwd_outputs)
    IN IF fwd1.err \/ bwd1.err THEN FailedPartition
       ELSE LET kept == FilterSeq(saved_values,
                                  Range(saved_values) \ UnusedSaved(bwd1.nodes, saved_values), 1)
                fwd2 == _extract_graph_with_inputs_outputs(g, primal_inputs(g), fwd_outputs \o kept)
                bwd2 == _extract_graph_with_inputs_outputs(g, kept \o tangent_inputs(g), bwd_outputs)
            IN IF fwd2.err \/ bwd2.err THEN FailedPartition
               ELSE [err |-> FALSE, fw |-> fwd2.nodes, bw |-> bwd2.nodes,
                     fwSingle |-> FALSE, bwSingle |-> FALSE, saved |-> kept]

\* Lines 183-184: the subgraphs built before the saved values are filtered;
\* err when either extraction raises.
first_graphs(g, num_fwd_outputs, saved_values) ==
    LET outs == OutputNode(g).args
        fwd_outputs == SubSeq(outs, 1, num_fwd_outputs)
        bwd_outputs == SubSeq(outs, num_fwd_outputs + 1, Len(outs))
        fwd1 == _extract_graph_with_inputs_outputs(g, primal_inputs(g), fwd_outputs \o saved_values)
        bwd1 == _extract_graph_with_inputs_outputs(g, saved_values \o tangent_inputs(g), bwd_outputs)
    IN [inputs |-> saved_values, outputs |-> bwd_outputs,
        err |-> fwd1.err \/ bwd1.err, nodes |-> bwd1.nodes]

\* ------------------------------------------------------------ recompute-aware partitioner
\* The operators of the model's graphs: "mul" is one of pointwise_ops, "mm" is
\* in none of the lists.
Targets == {"mul", "mm"}

\* The members of recomputable_ops (lines 254-259) among Targets.
recomputable_ops == {"mul"}

\* Lines 239-245: the tangent placeholders and everything downstream of them.
RECURSIVE TangentClosure(_, _, _)
TangentClosure(g, i, closure) ==
    IF i > Len(g) THEN closure
    ELSE LET c == IF _is_tangent(g[i]) THEN closure \cup {i} ELSE closure
         IN TangentClosure(g, i + 1, IF i \in c THEN c \cup Users(g, i) ELSE c)

tangent_closure(g) == TangentClosure(g, 1, {})

prod(meta) == CHOOSE n \in meta : TRUE

\* The vertices of the flow network: node.name+"_in", node.name+"_out",
\* "source" and "sink".
Source == <<"source", 0>>
Sink == <<"sink", 0>>
VIn(i) == <<"in", i>>
VOut(i) == <<"out", i>>

InfEdge(u, v) == [u |-> u, v |-> v, inf |-> TRUE, w |-> 0]

\* Lines 274-284: the capacity of node i's in->out edge.
NodeEdge(g, i) ==
    IF g[i].meta = {} THEN InfEdge(VIn(i), VOut(i))
    ELSE [u |-> VIn(i), v |-> VOut(i), inf |-> FALSE,
          w |-> IF g[i].op = "placeholder" /\ g[i].target = "primals"
                THEN prod(g[i].meta) ELSE prod(g[i].meta) * 2]

\* Anchoring the recomputable operations instead.
AnchoredIfRecomputable(g, i, recomputable) == g[i].target \in recomputable

\* Anchoring no operation.
NeverAnchored(g, i, recomputable) == FALSE

\* Lines 271-272: which nodes get a source -> node_in edge beside the primals.
AnchoredToSource(g, i, recomputable) == g[i].target \notin recomputable

\* Lines 262-286: the edges of nx_graph.
NetworkEdges(g, recomputable) ==
    LET closure == tangent_closure(g)
        fwd == DOMAIN g \ closure
    IN {InfEdge(VIn(i), Sink) : i \in closure}
       \cup {InfEdge(Source, VIn(i)) :
               i \in {j \in fwd : (g[j].op = "placeholder" /\ g[j].target = "primals")
                                  \/ AnchoredToSource(g, j, recomputable)}}
       \cup {NodeEdge(g, i) : i \in fwd}
       \cup {InfEdge(VOut(p[1]), VIn(p[2])) :
               p \in {q \in fwd \X DOMAIN g : q[2] \in Users(g, q[1])}}

Vertices(edges) == {e.u : e \in edges} \cup {e.v : e \in edges}

\* The vertices reached from the set S along infinite-capacity edges.
RECURSIVE InfReach(_, _)
InfReach(edges, S) ==
    LET nxt == S \cup {e.v : e \in {d \in edges : d.inf /\ d.u \in S}}
    IN IF nxt = S THEN S ELSE InfReach(edges, nxt)

\* The vertices from which the set T is reached along infinite-capacity edges.
RECURSIVE InfCoReach(_, _)
InfCoReach(edges, T) ==
    LET nxt == T \cup {e.u : e \in {d \in edges : d.inf /\ d.v \in T}}
    IN IF nxt = T THEN T ELSE InfCoReach(edges, nxt)

Crossing(edges, S) == {e \in edges : e.u \in S /\ e.v \notin S}

CutWeight(edges, S) == SumOver(Crossing(edges, S), [e \in edges |-> e.w])

\* nx.minimum_cut(nx_graph, "source", "sink"): NetworkXUnbounded when a path of
\* infinite capacity joins source to sink; otherwise the value of a minimum
\* cut and the partition (reachable, non_reachable), non_reachable being the
\* vertices from which the sink is reached in the residual network of a
\* maximum flow: the smallest sink side among the minimum cuts.
minimum_cut(edges) ==
    LET V == Vertices(edges)
        mustS == InfReach(edges, {Source})
        mustT == InfCoReach(edges, {Sink})
    IN IF Sink \in mustS
       THEN [unbounded |-> TRUE, value |-> 0, reachable |-> {}, non_reachable |-> {}]
       ELSE LET sides == {mustS \cup X : X \in SUBSET (V \ (mustS \cup mustT))}
                finite == {S \in sides : \A e \in Crossing(edges, S) : ~e.inf}
                weight == [S \in finite |-> CutWeight(edges, S)]
                best == CHOOSE S \in finite : \A S2 \in finite : weight[S] <= weight[S2]
                reachable == UNION {S \in finite : weight[S] = weight[best]}
            IN [unbounded |-> FALSE, value |-> weight[best],
                reachable |-> reachable, non_reachable |-> V \ reachable]

\* Line 296, assert node_in[:-3] == node_out[:-4]: the two vertex names are
\* name+"_in" and name+"_out" of one node.
SameNodeName(e) == e.u[1] = "in" /\ e.v[1] = "out" /\ e.u[2] = e.v[2]

\* Lines 236-298: the network, its minimum cut, the cut set and cut_nodes.
\* error: "" or the exception that ends the partitioner.
RecomputeCut(g, recomputable) ==
    LET edges == NetworkEdges(g, recomputable)
        mc == minimum_cut(edges)
        cutset == Crossing(edges, mc.reachable)
    IN IF mc.unbounded
       THEN [error |-> "NetworkXUnbounded", value |-> 0, cutset |-> {}, cut_nodes |-> {}]
       ELSE IF \E e \in cutset : ~SameNodeName(e)
       THEN [error |-> "AssertionError", value |-> mc.value, cutset |-> cutset,
             cut_nodes |-> {}]
       ELSE [error |-> "", value |-> mc.value, cutset |-> cutset,
             cut_nodes |-> {e.u[2] : e \in cutset}]

\* order: the order in which the set cut_nodes is iterated on line 302.
partition_with_recompute_fwd_in_bwd(g, num_fwd_outputs, cut, order) ==
    IF cut.error # "" THEN FailedPartition
    ELSE _extract_fwd_bwd_modules(g, num_fwd_outputs, order)

\* ------------------------------------------------------------ joint graphs
\* What make_fx(joint_forward_backward)(flat_args, out) returns (lines 307-315,
\* 364-370): the primal placeholders, then one tangent placeholder per forward
\* output, then the operations of fn followed by those of autograd.grad, then
\* the output node listing the forward outputs and the gradients.  A forward
\* output is a primal or an operation of fn (so it precedes every operation
\* that depends on a tangent); a gradient is a tangent or depends on one.
\* The model's graphs have one forward output.
PrimalSizes == {1, 3}

ArgChoices(m) == {<<a>> : a \in 1..m} \cup {<<p[1], p[2]>> : p \in {q \in (1..m) \X (1..m) : q[1] < q[2]}}

CallShapes(np, nc) ==
    {c \in [1..nc -> [target : Targets, args : ArgChoices(np + nc)]] :
        \A k \in 1..nc : \A a \in Range(c[k].args) : a <= np + k}

\* lacking: the forward node without tensor_meta, 0 when every node has it.
BuildJoint(np, calls, psz, lacking, outs) ==
    LET n == np + 1 + Len(calls)
    IN [i \in 1..(n + 1) |->
         IF i <= np THEN [op |-> "placeholder", target |-> "primals", args |-> <<>>,
                          meta |-> IF i = lacking THEN {} ELSE {psz}, src |-> i]
         ELSE IF i = np + 1 THEN [op |-> "placeholder", target |-> "tangents",
                                  args |-> <<>>, meta |-> {1}, src |-> i]
         ELSE IF i <= n THEN [op |-> "call_function", target |-> calls[i - np - 1].target,
                              args |-> calls[i - np - 1].args,
                              meta |-> IF i = lacking THEN {} ELSE {1}, src |-> i]
         ELSE [op |-> "output", target |-> "output", args |-> outs, meta |-> {}, src |-> i]]

\* The first operation that depends on a tangent; the output node when none does.
FirstBackward(g) ==
    LET bwCalls == {i \in tangent_closure(g) : g[i].op = "call_function"}
    IN IF bwCalls = {} THEN Len(g) ELSE CHOOSE i \in bwCalls : \A j \in bwCalls : i <= j

WellFormedJoint(g) ==
    LET outs == OutputNode(g).args
        closure == tangent_closure(g)
    IN /\ outs[1] \notin closure
       /\ outs[1] < FirstBackward(g)
       /\ \A k \in 2..Len(outs) : g[outs[k]].op # "output" /\ outs[k] \in closure
       /\ \A i \in closure : g[i].op # "output" => g[i].meta # {}

\* ------------------------------------------------------------ state
VARIABLES
    joint,        \* the traced joint graph handed to a partitioner
    op,           \* the operation applied to it, "none" before
    part,         \* what the partitioner returned
    cut,          \* the recompute-aware partitioner's cut
    cmp,          \* the cut costs under two recomputable-operator sets
    ext,          \* what _extract_graph_with_inputs_outputs returned
    compile_cache, \* the module global: None or a CompileCache
    units,        \* the CompiledFunction classes created so far, with their nonlocals
    wrappers,     \* the returned_function closures: fn_id and the nonlocal cached_res
    callers,      \* each caller's position in returned_function and its locals
    hist          \* what happened per key since the last clear

pvars == <<joint, op, part, cut, cmp, ext>>

dvars == <<compile_cache, units, wrappers, callers, hist>>

vars == <<joint, op, part, cut, cmp, ext, compile_cache, units, wrappers, callers, hist>>

num_fwd_outputs == 1

NoCut == [error |-> "none", value |-> 0, cutset |-> {}, cut_nodes |-> {}]
NoCmp == [R |-> {}, t |-> "", before |-> NoCut, after |-> NoCut]
NoExt == [inputs |-> <<>>, outputs |-> <<>>, err |-> TRUE, nodes |-> <<>>]

\* ------------------------------------------------------------ dispatch model
\* A flattened argument is a tensor: the shape its signature is derived from,
\* its numeric content, and whether it requires a gradient.
Shapes == {"s"}

Values == {1, 2}

Leaves == [shape : Shapes, value : Values, requires_grad : BOOLEAN]

FlatArgs == UNION {[1..n -> Leaves] : n \in 1..MaxLeaves}

Fns == {"f"}

Wrappers == {"w1", "w2"}

hasher_type == "StaticShapeHasher"

\* The cache: the signature derived from the argument values keeps their
\* shapes and drops their numeric content; an entry is a unit, 0 is absent.
Signature(flattened_args) == [i \in DOMAIN flattened_args |-> flattened_args[i].shape]

NumericValues(flattened_args) == [i \in DOMAIN flattened_args |-> flattened_args[i].value]

Keys == UNION {Fns \X {n} \X {hasher_type} \X [1..n -> Shapes] : n \in 1..MaxLeaves}

KeyOf(fn_id, num_args, tag, flattened_args) == <<fn_id, num_args, tag, Signature(flattened_args)>>

None == [exists |-> FALSE, entries |-> [k \in Keys |-> 0]]

CompileCache == [exists |-> TRUE, entries |-> [k \in Keys |-> 0]]

at(cache, fn_id, num_args, tag, flattened_args) ==
    cache.entries[KeyOf(fn_id, num_args, tag, flattened_args)]

insert(cache, fn_id, num_args, tag, artifact, flattened_args) ==
    [cache EXCEPT !.entries[KeyOf(fn_id, num_args, tag, flattened_args)] = artifact]

size(cache) == Cardinality({k \in Keys : cache.entries[k] # 0})

clear(cache) == [cache EXCEPT !.entries = [k \in Keys |-> 0]]

num_of_recompilations == IF ~compile_cache.exists THEN 0 ELSE size(compile_cache)

\* create_compiled_function: a unit with its nonlocals compiled_fw,
\* compiled_bw, num_outs; joint_grads are the gradients of the joint graph
\* last traced, one per argument that required a gradient in that call, which
\* are what a backward compiled from it returns.
NewUnit(key) ==
    [key |-> key, compiled_fw |-> FALSE, compiled_bw |-> FALSE, num_outs |-> 0,
     joint_grads |-> <<>>]

needs_input_grad(flat_args) == [i \in DOMAIN flat_args |-> flat_args[i].requires_grad]

\* create_joint_forward_backward: the primals that require a gradient, in order.
grad_primals(flat_args) ==
    FilterSeq([i \in DOMAIN flat_args |-> i],
              {i \in DOMAIN flat_args : flat_args[i].requires_grad}, 1)

CompileOutcomes == {"compiled", "fw_compiler raises", "bw_compiler raises"}

\* A forward that takes the compiling branch on every call.
AlwaysCompile(unit) == TRUE

NeedsCompile(unit) == ~unit.compiled_fw

\* CompiledFunction.forward under one outcome of the compilers.
forward(unit, flat_args, outcome) ==
    IF NeedsCompile(unit)
    THEN LET traced == [unit EXCEPT !.num_outs = 1, !.joint_grads = grad_primals(flat_args)]
             fw_done == [traced EXCEPT !.compiled_fw = TRUE]
         IN IF outcome = "fw_compiler raises"
            THEN [unit |-> traced, error |-> "fw_compiler", traced |-> 1,
                  fw_invoked |-> 1, fw_returned |-> 0, bw_invoked |-> 0]
            ELSE IF outcome = "bw_compiler raises"
            THEN [unit |-> fw_done, error |-> "bw_compiler", traced |-> 1,
                  fw_invoked |-> 1, fw_returned |-> 1, bw_invoked |-> 1]
            ELSE [unit |-> [fw_done EXCEPT !.compiled_bw = TRUE],
                  error |-> "", traced |-> 1,
                  fw_invoked |-> 1, fw_returned |-> 1, bw_invoked |-> 1]
    ELSE [unit |-> unit, error |-> "", traced |-> 0,
          fw_invoked |-> 0, fw_returned |-> 0, bw_invoked |-> 0]

NoGrad == <<"None", 0>>

Grad(i) == <<"grad", i>>

\* What the compiled backward returns: a graph with one output returns it bare.
compiled_bw(unit) ==
    IF Len(unit.joint_grads) = 1
    THEN [kind |-> "tensor", v |-> Grad(unit.joint_grads[1])]
    ELSE [kind |-> "list", v |-> [k \in DOMAIN unit.joint_grads |-> Grad(unit.joint_grads[k])]]

\* Line 398: one result of out per position that needs a gradient, None for
\* the others; next() on an exhausted iterator raises.
RECURSIVE grad_out(_, _, _, _)
grad_out(out, needs, p, k) ==
    IF p > Len(needs) THEN [error |-> "", slots |-> <<>>, used |-> k - 1]
    ELSE IF needs[p]
         THEN IF k > Len(out) THEN [error |-> "StopIteration", slots |-> <<>>, used |-> k - 1]
              ELSE LET r == grad_out(out, needs, p + 1, k + 1)
                   IN [r EXCEPT !.slots = <<out[k]>> \o r.slots]
         ELSE LET r == grad_out(out, needs, p + 1, k)
              IN [r EXCEPT !.slots = <<NoGrad>> \o r.slots]

\* CompiledFunction.backward
backward(unit, needs) ==
    IF ~unit.compiled_bw
    THEN [error |-> "TypeError", slots |-> <<>>, used |-> 0, returned |-> 0]
    ELSE LET out == normalize_as_list(compiled_bw(unit))
             r == grad_out(out, needs, 1, 1)
         IN [error |-> r.error, slots |-> IF r.error = "" THEN r.slots ELSE <<>>,
             used |-> r.used, returned |-> Len(out)]

NoHistory ==
    [k \in Keys |-> [calls |-> 0, units |-> 0, traces |-> 0, fw_invoked |-> 0,
                     fw_returned |-> 0, bw_invoked |-> 0, inserted |-> 0,
                     last_failed |-> FALSE]]

IdleCaller ==
    [pc |-> "idle", w |-> "", args |-> <<>>, key |-> <<>>, hit |-> FALSE, nth |-> 0,
     after_failure |-> FALSE, repeated |-> FALSE, new_values |-> FALSE, expected |-> 0, found |-> 0, ran |-> 0, traced |-> 0,
     prior_fw |-> 0, error |-> "", slots |-> <<>>, used |-> 0, returned |-> 0]

NotWrapped == [fn_id |-> "", cached_res |-> 0]

\* The dispatch state before any callable is wrapped, with the given callers.
DispatchStart(n, limit) ==
    /\ compile_cache = None
    /\ units = <<>>
    /\ wrappers = [w \in Wrappers |-> NotWrapped]
    /\ callers = [c \in 1..n |-> IdleCaller]
    /\ hist = [per |-> NoHistory, calls |-> 0, limit |-> limit, insert_on_present |-> FALSE]

PartitionInit ==
    /\ \E np \in 1..MaxPrimals, nc \in 0..MaxCalls :
         \E calls \in CallShapes(np, nc), psz \in PrimalSizes, lacking \in 0..(np + 1 + nc),
            f \in 1..(np + 1 + nc), ng \in 0..MaxGrads :
           \E b \in [1..ng -> 1..(np + 1 + nc)] :
              /\ joint = BuildJoint(np, calls, psz, lacking, <<f>> \o b)
              /\ WellFormedJoint(joint)
    /\ op = "none"
    /\ part = FailedPartition
    /\ cut = NoCut
    /\ cmp = NoCmp
    /\ ext = NoExt
    /\ DispatchStart(1, 0)

\* partition_fn = default_partition
DefaultPartition ==
    /\ op = "none"
    /\ \E order \in Orderings(Color(joint, 1, {}, {}).saved_nodes) :
          part' = default_partition(joint, num_fwd_outputs, order)
    /\ op' = "default_partition"
    /\ UNCHANGED <<joint, cut, cmp, ext, dvars>>

\* partition_fn = partition_with_recompute_fwd_in_bwd
RecomputePartition ==
    /\ op = "none"
    /\ LET c == RecomputeCut(joint, recomputable_ops)
       IN /\ cut' = c
          /\ \E order \in Orderings(c.cut_nodes) :
                part' = partition_with_recompute_fwd_in_bwd(joint, num_fwd_outputs, c, order)
    /\ op' = "partition_with_recompute_fwd_in_bwd"
    /\ UNCHANGED <<joint, cmp, ext, dvars>>

\* The cut of the same graph with operator t of R marked non-recomputable.
MarkNonRecomputable ==
    /\ op = "none"
    /\ \E R \in SUBSET Targets : \E t \in R :
          cmp' = [R |-> R, t |-> t, before |-> RecomputeCut(joint, R),
                  after |-> RecomputeCut(joint, R \ {t})]
    /\ op' = "mark"
    /\ UNCHANGED <<joint, part, cut, ext, dvars>>

PartitionNext == DefaultPartition \/ RecomputePartition \/ MarkNonRecomputable

PartitionSpec == PartitionInit /\ [][PartitionNext]_vars

\* ------------------------------------------------------------ partition correctness
InputNames == <<"x1", "x2", "x3", "x4", "x5", "x6", "x7", "x8", "x9">>

InputValue(i) == <<InputNames[i], <<>>>>

PrimalValues(g) == MapSeq(primal_inputs(g), [i \in DOMAIN g |-> InputValue(i)])

TangentValues(g) == MapSeq(tangent_inputs(g), [i \in DOMAIN g |-> InputValue(i)])

\* Forward on the primal values, then backward on (saved values ++ tangent
\* values), against the joint graph on (primal values ++ tangent values).
PartitionCorrect(g, p) ==
    /\ ~p.err
    /\ LET jointOut == RunGraph(g, FALSE, PrimalValues(g) \o TangentValues(g))
           fwRes == RunGraph(p.fw, p.fwSingle, PrimalValues(g))
           fw_outs == normalize_as_list(fwRes)
           bwRes == RunGraph(p.bw, p.bwSingle,
                             SubSeq(fw_outs, num_fwd_outputs + 1, Len(fw_outs))
                                \o TangentValues(g))
       IN /\ ~fwRes.err
          /\ ~bwRes.err
          /\ SubSeq(fw_outs, 1, num_fwd_outputs) = SubSeq(jointOut.v, 1, num_fwd_outputs)
          /\ normalize_as_list(bwRes)
               = SubSeq(jointOut.v, num_fwd_outputs + 1, Len(jointOut.v))

Partitioned == op \in {"default_partition", "partition_with_recompute_fwd_in_bwd"}

\* C1: both partitioners return a pair whose forward-then-backward evaluation
\* reproduces the joint graph's forward outputs and gradients.
C1_PartitionCorrectness == Partitioned => PartitionCorrect(joint, part)

\* C6: the recompute-aware partitioner computes a cut, and every edge of the
\* cut set is the finite in->out edge of one node.
C6_MinCutFeasible ==
    op = "partition_with_recompute_fwd_in_bwd" =>
        /\ cut.error = ""
        /\ \A e \in cut.cutset : ~e.inf /\ SameNodeName(e)

\* ------------------------------------------------------------ cut cost
Unbounded(c) == c.error = "NetworkXUnbounded"

\* C9: with one more operator marked non-recomputable the minimum cut costs
\* at least as much (an unbounded cut stays unbounded).
C9_CutCostMonotone ==
    op = "mark" =>
        /\ Unbounded(cmp.before) => Unbounded(cmp.after)
        /\ ~Unbounded(cmp.after) => cmp.after.value >= cmp.before.value

C9_Witness ==
    /\ op = "mark"
    /\ ~Unbounded(cmp.after)
    /\ cmp.after.value > cmp.before.value
    /\ cmp.before.value > 0

\* ------------------------------------------------------------ saved, not recomputed
RECURSIVE Downstream(_, _)
Downstream(g, S) ==
    LET nxt == S \cup UNION {Users(g, i) : i \in S}
    IN IF nxt = S THEN S ELSE Downstream(g, nxt)

\* The forward-region operations whose operator is not recomputable.
NonRecomputable(g) ==
    {i \in DOMAIN g \ tangent_closure(g) :
        g[i].op = "call_function" /\ g[i].target \notin recomputable_ops}

\* The nodes of the joint graph that the subgraph computes / takes as inputs.
ComputedIn(sub) == {sub[k].src : k \in {j \in DOMAIN sub : sub[j].op = "call_function"}}
InputsOf(sub) == {sub[k].src : k \in {j \in DOMAIN sub : sub[j].op = "placeholder"}}

\* The backward subgraph needs node x: it computes an operation downstream of x.
BackwardNeeds(g, p, x) == Downstream(g, {x}) \cap ComputedIn(p.bw) # {}

\* C10: the backward subgraph computes no non-recomputable forward operation;
\* when it needs one, that node or one downstream of it is saved and is an
\* input of the backward subgraph.
C10_NonRecomputableSaved ==
    op = "partition_with_recompute_fwd_in_bwd" /\ ~part.err =>
        /\ NonRecomputable(joint) \cap ComputedIn(part.bw) = {}
        /\ \A x \in NonRecomputable(joint) :
              BackwardNeeds(joint, part, x) =>
                 Downstream(joint, {x}) \cap Range(part.saved) \cap InputsOf(part.bw) # {}

\* A non-recomputable forward operation that the backward needs is saved,
\* although saving its only argument, a primal, would have cost less.
C10_Witness ==
    /\ op = "partition_with_recompute_fwd_in_bwd"
    /\ ~part.err
    /\ \E x \in NonRecomputable(joint) :
          /\ BackwardNeeds(joint, part, x)
          /\ x \in Range(part.saved) \cap InputsOf(part.bw)
          /\ Len(joint[x].args) = 1
          /\ _is_primal(joint[joint[x].args[1]])
          /\ joint[joint[x].args[1]].meta = {1}
          /\ joint[x].args[1] \notin Range(part.saved)

\* ------------------------------------------------------------ extraction alone
\* Any source graph (its own outputs play no part in an extraction), any
\* ordered set of permitted inputs, any list of desired outputs.
ExtractInit ==
    /\ \E np \in 1..MaxPrimals, nc \in 0..MaxCalls :
         \E calls \in CallShapes(np, nc) : joint = BuildJoint(np, calls, 1, 0, <<1>>)
    /\ op = "none"
    /\ part = FailedPartition
    /\ cut = NoCut
    /\ cmp = NoCmp
    /\ ext = NoExt
    /\ DispatchStart(1, 0)

Extract ==
    /\ op = "none"
    /\ \E ins \in SUBSET (1..(Len(joint) - 1)) :
         /\ Cardinality(ins) <= MaxInputs
         /\ \E inputs \in Orderings(ins), k \in 1..MaxOutputs :
              \E outputs \in [1..k -> 1..(Len(joint) - 1)] :
                 LET r == _extract_graph_with_inputs_outputs(joint, inputs, outputs)
                 IN ext' = [inputs |-> inputs, outputs |-> outputs,
                            err |-> r.err, nodes |-> r.nodes]
    /\ op' = "_extract_graph_with_inputs_outputs"
    /\ UNCHANGED <<joint, part, cut, cmp, dvars>>

ExtractNext == Extract

ExtractSpec == ExtractInit /\ [][ExtractNext]_vars

Extracted == op = "_extract_graph_with_inputs_outputs" /\ ~ext.err

\* The nodes from which the graph's output node is reached.
RECURSIVE Upstream(_, _)
Upstream(g, S) ==
    LET nxt == S \cup UNION {Range(g[i].args) : i \in S}
    IN IF nxt = S THEN S ELSE Upstream(g, nxt)

ReachesOutput(g) == Upstream(g, {Len(g)})

\* C7 as stated: every node of the extracted graph, input placeholders
\* included, is reachable from its output node.
C7_NoDeadNode == Extracted => ReachesOutput(ext.nodes) = DOMAIN ext.nodes

\* C7 as amended: every operation of the extracted graph is reachable from its
\* output node, and its placeholders are the permitted inputs, in order, each
\* one kept whether or not an output depends on it.
C7_NoDeadOperation ==
    Extracted =>
        /\ \A i \in DOMAIN ext.nodes :
              ext.nodes[i].op # "placeholder" => i \in ReachesOutput(ext.nodes)
        /\ \A k \in DOMAIN ext.inputs :
              ext.nodes[k].op = "placeholder" /\ ext.nodes[k].src = ext.inputs[k]
        /\ NumPlaceholders(ext.nodes) = Len(ext.inputs)

\* An extraction in which dead-code elimination erased an operation that the
\* walk had copied, kept another one, and left a placeholder without user.
C7_Witness ==
    /\ Extracted
    /\ \E c \in DOMAIN joint :
          /\ joint[c].op = "call_function"
          /\ c \notin ComputedIn(ext.nodes) \cup InputsOf(ext.nodes)
          /\ Range(joint[c].args) \subseteq ComputedIn(ext.nodes) \cup InputsOf(ext.nodes)
    /\ ComputedIn(ext.nodes) # {}
    /\ \E i \in DOMAIN ext.nodes :
          ext.nodes[i].op = "placeholder" /\ Users(ext.nodes, i) = {}

\* ------------------------------------------------------------ refinement alone
\* Any joint graph with its footprints, any list of distinct nodes as the
\* initial saved values.
RefineInit ==
    /\ \E np \in 1..MaxPrimals, nc \in 0..MaxCalls :
         \E calls \in CallShapes(np, nc), f \in 1..(np + 1 + nc), ng \in 0..MaxGrads :
           \E b \in [1..ng -> 1..(np + 1 + nc)] :
              /\ joint = BuildJoint(np, calls, 1, 0, <<f>> \o b)
              /\ WellFormedJoint(joint)
    /\ op = "none"
    /\ part = FailedPartition
    /\ cut = NoCut
    /\ cmp = NoCmp
    /\ ext = NoExt
    /\ DispatchStart(1, 0)

\* _extract_fwd_bwd_modules(joint_module, saved_values); ext keeps the
\* backward subgraph of the first extraction.
Refine ==
    /\ op = "none"
    /\ \E S \in SUBSET (1..(Len(joint) - 1)) :
         /\ Cardinality(S) <= MaxSaved
         /\ \E saved_values \in Orderings(S) :
              /\ ext' = first_graphs(joint, num_fwd_outputs, saved_values)
              /\ part' = _extract_fwd_bwd_modules(joint, num_fwd_outputs, saved_values)
    /\ op' = "_extract_fwd_bwd_modules"
    /\ UNCHANGED <<joint, cut, cmp, dvars>>

RefineNext == Refine

RefineSpec == RefineInit /\ [][RefineNext]_vars

\* C11: when the first extractions succeed, the subgraphs rebuilt after the
\* unused saved values are dropped are extracted too, every saved-value
\* placeholder of the returned backward subgraph has a consumer, and the same
\* pass applied to the returned saved values returns the same pair.
C11_RefinementFixedPoint ==
    (op = "_extract_fwd_bwd_modules" /\ ~ext.err) =>
        /\ ~part.err
        /\ UnusedSaved(part.bw, part.saved) = {}
        /\ \A i \in DOMAIN part.bw :
              (part.bw[i].op = "placeholder" /\ part.bw[i].src \in Range(part.saved))
                  => Users(part.bw, i) # {}
        /\ _extract_fwd_bwd_modules(joint, num_fwd_outputs, part.saved) = part

\* A pass that dropped a saved operation whose arguments stay available to
\* the backward subgraph, and kept another saved value.
C11_Witness ==
    /\ op = "_extract_fwd_bwd_modules"
    /\ ~ext.err
    /\ ~part.err
    /\ part.saved # <<>>
    /\ \E u \in Range(ext.inputs) \ Range(part.saved) :
          /\ joint[u].op = "call_function"
          /\ Range(joint[u].args) \subseteq Range(part.saved)

\* ------------------------------------------------------------ dispatch
NoPartition ==
    /\ joint = <<>>
    /\ op = "none"
    /\ part = FailedPartition
    /\ cut = NoCut
    /\ cmp = NoCmp
    /\ ext = NoExt

InCall(c) == callers[c].pc \in {"looked", "ready"}

\* compiled_function(fn, ...): creates the cache when there is none and
\* returns a new closure.
Wrap(w, fn) ==
    /\ wrappers[w] = NotWrapped
    /\ \A c \in DOMAIN callers : ~InCall(c)
    /\ compile_cache' = IF ~compile_cache.exists THEN CompileCache ELSE compile_cache
    /\ wrappers' = [wrappers EXCEPT ![w] = [fn_id |-> fn, cached_res |-> 0]]
    /\ UNCHANGED <<units, callers, hist, pvars>>

\* returned_function up to line 459: the arguments are flattened and
\* cached_res is assigned the result of the lookup. The caller notes whether
\* its call before executed a unit for the same key, and with which values.
Call(c, w, flattened_args) ==
    /\ ~InCall(c)
    /\ wrappers[w] # NotWrapped
    /\ hist.calls < hist.limit
    /\ LET fn_id == wrappers[w].fn_id
           num_args == Len(flattened_args)
           key == KeyOf(fn_id, num_args, hasher_type, flattened_args)
           repeated == callers[c].key = key /\ callers[c].ran # 0
           mine == [IdleCaller EXCEPT
                      !.w = w, !.args = flattened_args, !.key = key,
                      !.repeated = repeated,
                      !.new_values = /\ repeated
                                     /\ NumericValues(callers[c].args) # NumericValues(flattened_args)]
       IN IF ~compile_cache.exists
          THEN /\ callers' = [callers EXCEPT ![c] =
                                [mine EXCEPT !.pc = "raised", !.error = "AttributeError"]]
               /\ hist' = [hist EXCEPT !.calls = @ + 1]
               /\ UNCHANGED wrappers
          ELSE LET found == at(compile_cache, fn_id, num_args, hasher_type, flattened_args)
               IN /\ wrappers' = [wrappers EXCEPT ![w].cached_res = found]
                  /\ callers' = [callers EXCEPT ![c] =
                                   [mine EXCEPT !.pc = "looked", !.found = found,
                                                !.nth = hist.per[key].calls + 1,
                                                !.after_failure = hist.per[key].last_failed,
                                                !.expected = hist.per[key].inserted]]
                  /\ hist' = [hist EXCEPT !.calls = @ + 1, !.per[key].calls = @ + 1]
    /\ UNCHANGED <<compile_cache, units, pvars>>

\* Lines 462-481, cached_res is None: a new unit is created and inserted.
\* What insert does to a key that is present is not defined: the entry is
\* either replaced or kept.
Miss(c) ==
    /\ callers[c].pc = "looked"
    /\ wrappers[callers[c].w].cached_res = 0
    /\ LET me == callers[c]
           unit == Len(units) + 1
           present == compile_cache.entries[me.key] # 0
           replaced == insert(compile_cache, wrappers[me.w].fn_id, Len(me.args),
                              hasher_type, unit, me.args)
       IN /\ units' = Append(units, NewUnit(me.key))
          /\ wrappers' = [wrappers EXCEPT ![me.w].cached_res = unit]
          /\ compile_cache' \in (IF present THEN {replaced, compile_cache} ELSE {replaced})
          /\ hist' = [hist EXCEPT !.per[me.key].units = @ + 1,
                                  !.per[me.key].inserted = compile_cache'.entries[me.key],
                                  !.insert_on_present = @ \/ present]
          /\ callers' = [callers EXCEPT ![c].pc = "ready", ![c].hit = FALSE]
    /\ UNCHANGED pvars

\* Line 462, cached_res is not None.
Hit(c) ==
    /\ callers[c].pc = "looked"
    /\ wrappers[callers[c].w].cached_res # 0
    /\ callers' = [callers EXCEPT ![c].pc = "ready", ![c].hit = TRUE]
    /\ UNCHANGED <<compile_cache, units, wrappers, hist, pvars>>

\* Lines 485-487: cached_res is unpacked and the unit's forward is called.
Execute(c) ==
    /\ callers[c].pc = "ready"
    /\ LET me == callers[c]
           unit == wrappers[me.w].cached_res
       IN IF unit = 0
          THEN /\ callers' = [callers EXCEPT ![c].pc = "raised", ![c].error = "TypeError"]
               /\ UNCHANGED <<units, hist>>
          ELSE \E outcome \in CompileOutcomes :
                 LET r == forward(units[unit], me.args, outcome)
                     k == units[unit].key
                 IN /\ units' = [units EXCEPT ![unit] = r.unit]
                    /\ callers' = [callers EXCEPT
                                     ![c].pc = IF r.error = "" THEN "returned" ELSE "raised",
                                     ![c].error = r.error,
                                     ![c].ran = unit,
                                     ![c].traced = r.traced,
                                     ![c].prior_fw = hist.per[me.key].fw_returned]
                    /\ hist' = [hist EXCEPT
                                  !.per[k].traces = @ + r.traced,
                                  !.per[k].fw_invoked = @ + r.fw_invoked,
                                  !.per[k].fw_returned = @ + r.fw_returned,
                                  !.per[k].bw_invoked = @ + r.bw_invoked,
                                  !.per[k].last_failed = (r.error # "")]
    /\ UNCHANGED <<compile_cache, wrappers, pvars>>

\* Autograd calls the backward of the unit whose forward returned, when some
\* argument required a gradient.
Backward(c) ==
    /\ callers[c].pc = "returned"
    /\ \E i \in DOMAIN callers[c].args : callers[c].args[i].requires_grad
    /\ LET r == backward(units[callers[c].ran], needs_input_grad(callers[c].args))
       IN callers' = [callers EXCEPT
                        ![c].pc = IF r.error = "" THEN "backward returned" ELSE "raised",
                        ![c].error = r.error,
                        ![c].slots = r.slots,
                        ![c].used = r.used,
                        ![c].returned = r.returned]
    /\ UNCHANGED <<compile_cache, units, wrappers, hist, pvars>>

clear_compile_cache ==
    /\ compile_cache.exists
    /\ \A c \in DOMAIN callers : ~InCall(c)
    /\ compile_cache' = None
    /\ hist' = [hist EXCEPT !.per = NoHistory]
    /\ UNCHANGED <<units, wrappers, callers, pvars>>

Init == NoPartition /\ DispatchStart(1, MaxDispatchCalls)

Next ==
    \/ \E w \in Wrappers, fn \in Fns : Wrap(w, fn)
    \/ \E c \in DOMAIN callers, w \in Wrappers, flattened_args \in FlatArgs :
          Call(c, w, flattened_args)
    \/ \E c \in DOMAIN callers : Miss(c)
    \/ \E c \in DOMAIN callers : Hit(c)
    \/ \E c \in DOMAIN callers : Execute(c)
    \/ \E c \in DOMAIN callers : Backward(c)
    \/ clear_compile_cache

Spec == Init /\ [][Next]_vars

\* Callers whose steps interleave at lookup, insert and execution.
ConcurrentInit == NoPartition /\ DispatchStart(NumCallers, MaxConcurrentCalls)

ConcurrentNext ==
    \/ \E w \in Wrappers, fn \in Fns : Wrap(w, fn)
    \/ \E c \in DOMAIN callers, w \in Wrappers, flattened_args \in FlatArgs :
          Call(c, w, flattened_args)
    \/ \E c \in DOMAIN callers : Miss(c)
    \/ \E c \in DOMAIN callers : Hit(c)
    \/ \E c \in DOMAIN callers : Execute(c)

ConcurrentSpec == ConcurrentInit /\ [][ConcurrentNext]_vars

\* ------------------------------------------------------------ dispatch claims
PastLookup(c) == callers[c].pc \in {"ready", "returned", "backward returned"} \/ callers[c].ran # 0

CompilerRaised(c) ==
    callers[c].pc = "raised" /\ callers[c].error \in {"fw_compiler", "bw_compiler"}

\* C2: after a cache-miss call in which the forward or the backward compiler
\* raised, the cache holds no entry for the call's key, and the call that
\* retries the key is a miss again.
C2_FailureLeavesCacheUnchanged ==
    \A c \in DOMAIN callers :
        /\ (CompilerRaised(c) /\ ~callers[c].hit) => compile_cache.entries[callers[c].key] = 0
        /\ (PastLookup(c) /\ callers[c].after_failure) => ~callers[c].hit

BackwardCalled(c) ==
    /\ callers[c].ran # 0
    /\ \/ callers[c].pc = "backward returned"
       \/ callers[c].pc = "raised" /\ callers[c].error \in {"TypeError", "StopIteration"}

RoutedBySlot(c) ==
    /\ callers[c].pc = "backward returned"
    /\ Len(callers[c].slots) = Len(callers[c].args)
    /\ \A p \in DOMAIN callers[c].args :
          callers[c].slots[p] = IF callers[c].args[p].requires_grad THEN Grad(p) ELSE NoGrad
    /\ callers[c].used = callers[c].returned

\* C4: a backward call of a unit, where the arguments that require gradients
\* are those of the call that traced the unit, returns one slot per flattened
\* argument: None where no gradient is required, the compiled backward's
\* results in input order elsewhere, none missing or left over.
C4_GradientRouting ==
    \A c \in DOMAIN callers :
        (BackwardCalled(c) /\ units[callers[c].ran].joint_grads = grad_primals(callers[c].args))
            => RoutedBySlot(c)

\* The same of the units whose backward was compiled.
RoutingOfCompiledUnits ==
    \A c \in DOMAIN callers :
        (/\ BackwardCalled(c)
         /\ units[callers[c].ran].compiled_bw
         /\ units[callers[c].ran].joint_grads = grad_primals(callers[c].args))
            => RoutedBySlot(c)

\* C5: a lookup between a key's insert and the next clear returns the unit
\* inserted, and the call of an already wrapped callable with a key it has
\* executed before finds the key absent after a clear and proceeds as a miss,
\* instead of failing at the lookup.
C5_CacheIdempotence ==
    \A c \in DOMAIN callers :
        /\ PastLookup(c) => callers[c].found = callers[c].expected
        /\ ~(callers[c].repeated /\ callers[c].pc = "raised" /\ callers[c].error = "AttributeError")

SameKey == \A c, d \in DOMAIN callers :
              (callers[c].pc # "idle" /\ callers[d].pc # "idle") => callers[c].key = callers[d].key

\* C8: when concurrent callers call with the same key, insert is never
\* performed for a key that is present, at most one unit is created for the
\* key, and each caller executes the unit of its own key.
C8_OneArtifactPerKey ==
    SameKey =>
        /\ ~hist.insert_on_present
        /\ \A k \in Keys : hist.per[k].units <= 1
        /\ \A c \in DOMAIN callers :
              /\ callers[c].ran # 0 => units[callers[c].ran].key = callers[c].key
              /\ ~(callers[c].pc = "raised" /\ callers[c].error = "TypeError")

====
